---- MODULE Spec2Model ----
(***************************************************************************)
(* Model of automissions/offboard_omnidirectional: the two example         *)
(* programs (omnidirectional and orthogonal body-velocity control).        *)
(* One control thread runs main(); one delivery thread of the              *)
(* communication library runs the subscription callbacks.                  *)
(*                                                                         *)
(* Velocities are kept in hundredths (0.5 m/s = 50, 22.5 deg/s = 2250);    *)
(* time is counted in whole seconds.                                       *)
(***************************************************************************)
EXTENDS Integers, Sequences, FiniteSets, TLC

VARIABLES
    variant,            \* which of the two programs runs: "omni" or "ortho"
    argc,               \* main's argc
    pc,                 \* position of the control thread
    retval,             \* value returned by main: "none", "0", "1"
    exitStatus,         \* "running", "0", "1", "abnormal"
    timer,              \* seconds left of the current sleep_for / wait_for
    connection_result,  \* result of add_any_connection
    systems,            \* mavsdk.systems(): has_autopilot() of each system
    sysSub,             \* a new-system callback is registered
    sysPending,         \* new-system notifications not yet delivered
    prom,               \* get_system's promise: "none","unset","set","dead"
    promVal,            \* the system stored in prom (index, 0 = none)
    system,             \* main's `system` (index into systems, 0 = null)
    lsSub,              \* a landed-state callback is registered
    lsQueue,            \* landed-state notifications not yet delivered
    inAirProm,          \* main's in_air_promise: "none","unset","set","dead"
    cbPc,               \* position of the delivery thread
    cbSystem,           \* `system` of the running new-system callback
    cbState,            \* `state` of the running landed-state callback
    ub,                 \* outcome of a write through a dangling reference
    ncalls,             \* number of invocations of each remote call
    results,            \* last result of each remote call
    polls,              \* last value of health_all_ok() and of in_air()
    subCalls,           \* subscribe / unsubscribe calls per source
    setValueCalls,      \* set_value executions per promise
    chan,               \* operations issued on the offboard channel
    dwellTotal,         \* seconds spent blocked in offb_ctrl_body's sleeps
    i,                  \* next entry of Body(variant) to send
    waited,             \* seconds spent in the current monitor's wait_for
    waits,              \* wait_for calls returned in the current monitor
    outcome             \* outcome of each monitor: "none","Resolved","TimedOut"

mainVars == <<variant, argc, retval, exitStatus, connection_result, system>>
discVars == <<systems, sysSub, sysPending, prom, promVal>>
lsVars   == <<lsSub, lsQueue, inAirProm>>
cbVars   == <<cbPc, cbSystem, cbState, ub>>
callVars == <<ncalls, results, polls>>
histVars == <<subCalls, setValueCalls, waited, waits, outcome>>
seqVars  == <<chan, dwellTotal, i>>

vars == <<variant, argc, pc, retval, exitStatus, timer, connection_result,
          systems, sysSub, sysPending, prom, promVal, system,
          lsSub, lsQueue, inAirProm, cbPc, cbSystem, cbState, ub,
          ncalls, results, polls, subCalls, setValueCalls,
          chan, dwellTotal, i, waited, waits, outcome>>

----------------------------------------------------------------------------
(* Bounds of the model *)

MaxSystems == 2     \* systems discovered during one run
MaxQueue == 2       \* landed-state notifications waiting for delivery

----------------------------------------------------------------------------
(* Program constants *)

DiscoverTimeout == 3
TakeoffWait1 == 10
TakeoffWait2 == 3
SettleSecs == 2
StepDwell == 4
PollSecs == 1
FinalSecs == 3

Variants == {"omni", "ortho"}
Results == {"Success", "Failed"}
\* the landed states a vehicle reports while it takes off
LandedStates == {"OnGround", "TakingOff", "InAir"}
CallNames == {"add_any_connection", "arm", "set_takeoff_altitude",
              "set_current_speed", "takeoff", "start", "stop", "land"}

\* Offboard::VelocityBodyYawspeed, in hundredths
Vel(f, r, d, y) ==
    [forward_m_s |-> f, right_m_s |-> r, down_m_s |-> d, yawspeed_deg_s |-> y]

hover == Vel(0, 0, 0, 0)
fly_forward_right_up == Vel(50, 50, -25, 0)
fly_forward_left_down == Vel(50, -50, 25, 0)
fly_backward_left_up == Vel(-50, -50, -25, 0)
fly_backward_right_down == Vel(-50, 50, 25, 0)
fly_quarter_cirle_up == Vel(0, 50, -25, 2250)
fly_quarter_cirle_down == Vel(0, 50, 25, 2250)
fly_forward == Vel(50, 0, 0, 0)

Step(c, d) == [cmd |-> c, dwell |-> d]

\* the commands between the two hovers, with their sleep_for
Steps(v) ==
    IF v = "omni"
    THEN << Step(fly_forward_right_up, StepDwell),
            Step(fly_forward_left_down, StepDwell),
            Step(fly_backward_left_up, StepDwell),
            Step(fly_backward_right_down, StepDwell),
            Step(fly_quarter_cirle_up, StepDwell),
            Step(fly_quarter_cirle_down, StepDwell),
            Step(fly_quarter_cirle_up, StepDwell),
            Step(fly_quarter_cirle_down, StepDwell) >>
    ELSE << Step(fly_forward, StepDwell) >>

Body_NoFinalHover(v) == << Step(hover, SettleSecs) >> \o Steps(v)

\* everything offb_ctrl_body sends between start() and stop()
Body(v) ==
    << Step(hover, SettleSecs) >> \o Steps(v) \o << Step(hover, SettleSecs) >>

----------------------------------------------------------------------------
(* Conditions of the code *)

StartOk_Always(r) == TRUE

\* offboard_result != Offboard::Result::Success is the failure branch
StartOk(r) == r = "Success"

SleepOver_Early(t) == TRUE

\* sleep_for(seconds(n)) returns once n seconds have passed
SleepOver(t) == t = 0

WaitExpired_Early(t) == TRUE

WaitExpired_Never(t) == FALSE

\* wait_for(seconds(n)) reports timeout once n seconds have passed
WaitExpired(t) == t = 0

subscribe_nullptr_Kept == TRUE

\* registration state after subscribe_...(nullptr)
subscribe_nullptr == FALSE

----------------------------------------------------------------------------
(* Helpers *)

Send(c) == [op |-> "set_velocity_body", cmd |-> c, res |-> "none", at |-> dwellTotal]
Ctl(o, r) == [op |-> o, cmd |-> hover, res |-> r, at |-> dwellTotal]

Remote(c, r) ==
    /\ ncalls' = [ncalls EXCEPT ![c] = @ + 1]
    /\ results' = [results EXCEPT ![c] = r]
    /\ polls' = polls

\* `return v` from main: main's locals are destroyed
Return(v) ==
    /\ pc' = "returned"
    /\ retval' = v
    /\ inAirProm' = IF inAirProm = "none" THEN "none" ELSE "dead"

Alive == pc # "exited"

----------------------------------------------------------------------------
Init ==
    /\ variant \in Variants
    /\ argc \in {1, 2, 3}
    /\ pc = "main_args"
    /\ retval = "none"
    /\ exitStatus = "running"
    /\ timer = 0
    /\ connection_result = "none"
    /\ systems = << >>
    /\ sysSub = FALSE
    /\ sysPending = 0
    /\ prom = "none"
    /\ promVal = 0
    /\ system = 0
    /\ lsSub = FALSE
    /\ lsQueue = << >>
    /\ inAirProm = "none"
    /\ cbPc = "idle"
    /\ cbSystem = 0
    /\ cbState = "OnGround"
    /\ ub = "none"
    /\ ncalls = [c \in CallNames |-> 0]
    /\ results = [c \in CallNames |-> "none"]
    /\ polls = [health_all_ok |-> "none", in_air |-> "none"]
    /\ subCalls = [sysSub |-> 0, sysUnsub |-> 0, lsSub |-> 0, lsUnsub |-> 0]
    /\ setValueCalls = [prom |-> 0, inAirProm |-> 0]
    /\ chan = << >>
    /\ dwellTotal = 0
    /\ i = 1
    /\ waited = 0
    /\ waits = 0
    /\ outcome = [gs |-> "none", ta |-> "none"]

----------------------------------------------------------------------------
(* main, up to the plugins *)

MainArgs ==
    /\ pc = "main_args"
    /\ IF argc # 2
       THEN Return("1")
       ELSE pc' = "connect" /\ UNCHANGED <<retval, inAirProm>>
    /\ UNCHANGED <<variant, argc, exitStatus, timer, connection_result, system,
                   discVars, lsSub, lsQueue, cbVars, callVars, histVars, seqVars>>

Connect ==
    /\ pc = "connect"
    /\ \E r \in Results :
        /\ Remote("add_any_connection", r)
        /\ connection_result' = r
        /\ IF r # "Success"
           THEN Return("1")
           ELSE pc' = "gs_subscribe" /\ UNCHANGED <<retval, inAirProm>>
    /\ UNCHANGED <<variant, argc, exitStatus, timer, system,
                   discVars, lsSub, lsQueue, cbVars, histVars, seqVars>>

----------------------------------------------------------------------------
(* get_system *)

GsSubscribe ==
    /\ pc = "gs_subscribe"
    /\ prom' = "unset"
    /\ sysSub' = TRUE
    /\ subCalls' = [subCalls EXCEPT !.sysSub = @ + 1]
    /\ timer' = DiscoverTimeout
    /\ waited' = 0
    /\ waits' = 0
    /\ pc' = "gs_wait"
    /\ UNCHANGED <<mainVars, systems, sysPending, promVal, lsVars, cbVars,
                   callVars, setValueCalls, outcome, seqVars>>

\* fut.wait_for(seconds(3)) finds the value; return fut.get()
GsReady ==
    /\ pc = "gs_wait"
    /\ prom = "set"
    /\ system' = promVal
    /\ prom' = "dead"
    /\ waits' = waits + 1
    /\ outcome' = [outcome EXCEPT !.gs = "Resolved"]
    /\ pc' = "main_system"
    /\ UNCHANGED <<variant, argc, retval, exitStatus, connection_result, timer,
                   systems, sysSub, sysPending, promVal, lsVars, cbVars,
                   callVars, subCalls, setValueCalls, waited, seqVars>>

GsTimeout_Unsub ==
    /\ pc = "gs_wait"
    /\ prom = "unset"
    /\ WaitExpired(timer)
    /\ system' = 0
    /\ prom' = "dead"
    /\ waits' = waits + 1
    /\ outcome' = [outcome EXCEPT !.gs = "TimedOut"]
    /\ sysSub' = FALSE
    /\ subCalls' = [subCalls EXCEPT !.sysUnsub = @ + 1]
    /\ pc' = "main_system"
    /\ UNCHANGED <<variant, argc, retval, exitStatus, connection_result, timer,
                   systems, sysPending, promVal, lsVars, cbVars,
                   callVars, setValueCalls, waited, seqVars>>

\* fut.wait_for(seconds(3)) == timeout; return {}
GsTimeout ==
    /\ pc = "gs_wait"
    /\ prom = "unset"
    /\ WaitExpired(timer)
    /\ system' = 0
    /\ prom' = "dead"
    /\ waits' = waits + 1
    /\ outcome' = [outcome EXCEPT !.gs = "TimedOut"]
    /\ pc' = "main_system"
    /\ UNCHANGED <<variant, argc, retval, exitStatus, connection_result, timer,
                   systems, sysSub, sysPending, promVal, lsVars, cbVars,
                   callVars, subCalls, setValueCalls, waited, seqVars>>

----------------------------------------------------------------------------
(* main, from the plugins to the takeoff *)

MainSystem ==
    /\ pc = "main_system"
    /\ IF system = 0
       THEN Return("1")
       ELSE pc' = "health" /\ UNCHANGED <<retval, inAirProm>>
    /\ UNCHANGED <<variant, argc, exitStatus, timer, connection_result, system,
                   discVars, lsSub, lsQueue, cbVars, callVars, histVars, seqVars>>

HealthPoll_NoWait ==
    /\ pc = "health"
    /\ \E health_all_ok \in BOOLEAN :
        /\ polls' = [polls EXCEPT !.health_all_ok = ToString(health_all_ok)]
        /\ pc' = "arm"
        /\ timer' = timer
    /\ UNCHANGED <<mainVars, discVars, lsVars, cbVars, ncalls, results,
                   histVars, seqVars>>

\* while (!telemetry.health_all_ok()) sleep_for(seconds(1))
HealthPoll ==
    /\ pc = "health"
    /\ \E health_all_ok \in BOOLEAN :
        /\ polls' = [polls EXCEPT !.health_all_ok = ToString(health_all_ok)]
        /\ IF health_all_ok
           THEN pc' = "arm" /\ timer' = timer
           ELSE pc' = "health_sleep" /\ timer' = PollSecs
    /\ UNCHANGED <<mainVars, discVars, lsVars, cbVars, ncalls, results,
                   histVars, seqVars>>

HealthSleep ==
    /\ pc = "health_sleep"
    /\ SleepOver(timer)
    /\ pc' = "health"
    /\ UNCHANGED <<mainVars, timer, discVars, lsVars, cbVars, callVars,
                   histVars, seqVars>>

Arm ==
    /\ pc = "arm"
    /\ \E r \in Results :
        /\ Remote("arm", r)
        /\ IF r # "Success"
           THEN Return("1")
           ELSE pc' = "takeoff" /\ UNCHANGED <<retval, inAirProm>>
    /\ UNCHANGED <<variant, argc, exitStatus, timer, connection_result, system,
                   discVars, lsSub, lsQueue, cbVars, histVars, seqVars>>

Takeoff ==
    /\ pc = "takeoff"
    /\ \E r \in Results :
        /\ ncalls' = [ncalls EXCEPT !["set_takeoff_altitude"] = @ + 1,
                                    !["set_current_speed"] = @ + 1,
                                    !["takeoff"] = @ + 1]
        /\ results' = [results EXCEPT !["takeoff"] = r]
        /\ polls' = polls
        /\ IF r # "Success"
           THEN Return("1")
           ELSE pc' = "ta_subscribe" /\ UNCHANGED <<retval, inAirProm>>
    /\ UNCHANGED <<variant, argc, exitStatus, timer, connection_result, system,
                   discVars, lsSub, lsQueue, cbVars, histVars, seqVars>>

----------------------------------------------------------------------------
(* main: takeoff confirmation *)

TaSubscribe ==
    /\ pc = "ta_subscribe"
    /\ inAirProm' = "unset"
    /\ lsSub' = TRUE
    /\ subCalls' = [subCalls EXCEPT !.lsSub = @ + 1]
    /\ timer' = TakeoffWait1
    /\ waited' = 0
    /\ waits' = 0
    /\ pc' = "ta_wait1"
    /\ UNCHANGED <<mainVars, discVars, lsQueue, cbVars, callVars,
                   setValueCalls, outcome, seqVars>>

\* in_air_future.wait_for(seconds(10)); the status is not looked at
TaWait1 ==
    /\ pc = "ta_wait1"
    /\ inAirProm = "set" \/ (inAirProm = "unset" /\ WaitExpired(timer))
    /\ waits' = waits + 1
    /\ timer' = TakeoffWait2
    /\ pc' = "ta_wait2"
    /\ UNCHANGED <<mainVars, discVars, lsVars, cbVars, callVars,
                   subCalls, setValueCalls, waited, outcome, seqVars>>

\* in_air_future.wait_for(seconds(3)) finds the future ready
TaReady ==
    /\ pc = "ta_wait2"
    /\ inAirProm = "set"
    /\ waits' = waits + 1
    /\ outcome' = [outcome EXCEPT !.ta = "Resolved"]
    /\ pc' = "offb_pre"
    /\ UNCHANGED <<mainVars, timer, discVars, lsVars, cbVars, callVars,
                   subCalls, setValueCalls, waited, seqVars>>

\* in_air_future.wait_for(seconds(3)) == timeout; return 1
TaTimeout ==
    /\ pc = "ta_wait2"
    /\ inAirProm = "unset"
    /\ WaitExpired(timer)
    /\ waits' = waits + 1
    /\ outcome' = [outcome EXCEPT !.ta = "TimedOut"]
    /\ Return("1")
    /\ UNCHANGED <<variant, argc, exitStatus, timer, connection_result, system,
                   discVars, lsSub, lsQueue, cbVars, callVars,
                   subCalls, setValueCalls, waited, seqVars>>

----------------------------------------------------------------------------
(* offb_ctrl_body, and main's `if (!offb_ctrl_body(offboard)) return 1` *)

OffbPre_NoSend ==
    /\ pc = "offb_pre"
    /\ pc' = "offb_start"
    /\ UNCHANGED <<mainVars, timer, discVars, lsVars, cbVars, callVars,
                   histVars, seqVars>>

\* offboard.set_velocity_body(hover) before the start
OffbPre ==
    /\ pc = "offb_pre"
    /\ chan' = Append(chan, Send(hover))
    /\ pc' = "offb_start"
    /\ UNCHANGED <<mainVars, timer, discVars, lsVars, cbVars, callVars,
                   histVars, dwellTotal, i>>

OffbStart ==
    /\ pc = "offb_start"
    /\ \E r \in Results :
        /\ Remote("start", r)
        /\ chan' = Append(chan, Ctl("start", r))
        /\ IF StartOk(r)
           THEN pc' = "offb_body" /\ UNCHANGED <<retval, inAirProm>>
           ELSE Return("1")
    /\ UNCHANGED <<variant, argc, exitStatus, timer, connection_result, system,
                   discVars, lsSub, lsQueue, cbVars, histVars, dwellTotal, i>>

\* offboard.set_velocity_body(Body[i].cmd); sleep_for(seconds(Body[i].dwell))
OffbSend ==
    /\ pc = "offb_body"
    /\ i <= Len(Body(variant))
    /\ chan' = Append(chan, Send(Body(variant)[i].cmd))
    /\ timer' = Body(variant)[i].dwell
    /\ pc' = "offb_sleep"
    /\ UNCHANGED <<mainVars, discVars, lsVars, cbVars, callVars, histVars,
                   dwellTotal, i>>

OffbSleep ==
    /\ pc = "offb_sleep"
    /\ SleepOver(timer)
    /\ i' = i + 1
    /\ pc' = IF i + 1 > Len(Body(variant)) THEN "offb_stop" ELSE "offb_body"
    /\ UNCHANGED <<mainVars, timer, discVars, lsVars, cbVars, callVars,
                   histVars, chan, dwellTotal>>

OffbStop ==
    /\ pc = "offb_stop"
    /\ \E r \in Results :
        /\ Remote("stop", r)
        /\ chan' = Append(chan, Ctl("stop", r))
        /\ IF r # "Success"
           THEN Return("1")
           ELSE pc' = "land" /\ UNCHANGED <<retval, inAirProm>>
    /\ UNCHANGED <<variant, argc, exitStatus, timer, connection_result, system,
                   discVars, lsSub, lsQueue, cbVars, histVars, dwellTotal, i>>

----------------------------------------------------------------------------
(* main: landing *)

Land ==
    /\ pc = "land"
    /\ \E r \in Results :
        /\ Remote("land", r)
        /\ IF r # "Success"
           THEN Return("1")
           ELSE pc' = "grounded" /\ UNCHANGED <<retval, inAirProm>>
    /\ UNCHANGED <<variant, argc, exitStatus, timer, connection_result, system,
                   discVars, lsSub, lsQueue, cbVars, histVars, seqVars>>

GroundedPoll_Reland ==
    /\ pc = "grounded"
    /\ \E in_air \in BOOLEAN :
        /\ polls' = [polls EXCEPT !.in_air = ToString(in_air)]
        /\ IF in_air
           THEN pc' = "land" /\ timer' = PollSecs
           ELSE pc' = "final_sleep" /\ timer' = FinalSecs
    /\ UNCHANGED <<mainVars, discVars, lsVars, cbVars, ncalls, results,
                   histVars, seqVars>>

\* while (telemetry.in_air()) sleep_for(seconds(1)); then sleep_for(seconds(3))
GroundedPoll ==
    /\ pc = "grounded"
    /\ \E in_air \in BOOLEAN :
        /\ polls' = [polls EXCEPT !.in_air = ToString(in_air)]
        /\ IF in_air
           THEN pc' = "grounded_sleep" /\ timer' = PollSecs
           ELSE pc' = "final_sleep" /\ timer' = FinalSecs
    /\ UNCHANGED <<mainVars, discVars, lsVars, cbVars, ncalls, results,
                   histVars, seqVars>>

GroundedSleep ==
    /\ pc = "grounded_sleep"
    /\ SleepOver(timer)
    /\ pc' = "grounded"
    /\ UNCHANGED <<mainVars, timer, discVars, lsVars, cbVars, callVars,
                   histVars, seqVars>>

FinalSleep ==
    /\ pc = "final_sleep"
    /\ SleepOver(timer)
    /\ Return("0")
    /\ UNCHANGED <<variant, argc, exitStatus, timer, connection_result, system,
                   discVars, lsSub, lsQueue, cbVars, callVars, histVars, seqVars>>

\* the process ends with the value main returned
ProcessExit ==
    /\ pc = "returned"
    /\ exitStatus' = retval
    /\ pc' = "exited"
    /\ UNCHANGED <<variant, argc, retval, connection_result, system, timer,
                   discVars, lsVars, cbVars, callVars, histVars, seqVars>>

----------------------------------------------------------------------------
(* one second passes while the control thread is in sleep_for or wait_for *)

SleepPcs == {"health_sleep", "offb_sleep", "grounded_sleep", "final_sleep"}
MonitorPcs == {"gs_wait", "ta_wait1", "ta_wait2"}

Tick ==
    /\ pc \in SleepPcs \cup MonitorPcs
    /\ timer > 0
    /\ timer' = timer - 1
    /\ waited' = IF pc \in MonitorPcs THEN waited + 1 ELSE waited
    /\ dwellTotal' = IF pc = "offb_sleep" THEN dwellTotal + 1 ELSE dwellTotal
    /\ UNCHANGED <<pc, mainVars, discVars, lsVars, cbVars, callVars,
                   subCalls, setValueCalls, waits, outcome, chan, i>>

----------------------------------------------------------------------------
(* The library's side: discovery, landed-state updates and the delivery    *)
(* thread that hands a notification to the callback registered at the      *)
(* time of delivery; notifications that find no callback are dropped.      *)

\* a discovery after the callback was unregistered is seen by nobody
Discover ==
    /\ Alive
    /\ connection_result = "Success"
    /\ sysSub \/ prom = "none"
    /\ Len(systems) < MaxSystems
    /\ \E has_autopilot \in BOOLEAN :
        systems' = Append(systems, has_autopilot)
    /\ sysPending' = IF sysSub THEN sysPending + 1 ELSE sysPending
    /\ UNCHANGED <<pc, timer, mainVars, sysSub, prom, promVal, lsVars, cbVars,
                   callVars, histVars, seqVars>>

DeliverSys ==
    /\ Alive
    /\ cbPc = "idle"
    /\ sysPending > 0
    /\ IF sysSub
       THEN sysPending' = sysPending - 1 /\ cbPc' = "sys_run"
       ELSE sysPending' = 0 /\ cbPc' = "idle"
    /\ UNCHANGED <<pc, timer, mainVars, systems, sysSub, prom, promVal, lsVars,
                   cbSystem, cbState, ub, callVars, histVars, seqVars>>

LandedStateEvent ==
    /\ Alive
    /\ lsSub
    /\ Len(lsQueue) < MaxQueue
    /\ \E state \in LandedStates : lsQueue' = Append(lsQueue, state)
    /\ UNCHANGED <<pc, timer, mainVars, discVars, lsSub, inAirProm, cbVars,
                   callVars, histVars, seqVars>>

DeliverLs ==
    /\ Alive
    /\ cbPc = "idle"
    /\ lsQueue # << >>
    /\ IF lsSub
       THEN /\ lsQueue' = Tail(lsQueue)
            /\ cbPc' = "ls_run"
            /\ cbState' = Head(lsQueue)
       ELSE /\ lsQueue' = << >>
            /\ UNCHANGED <<cbPc, cbState>>
    /\ UNCHANGED <<pc, timer, mainVars, discVars, lsSub, inAirProm,
                   cbSystem, ub, callVars, histVars, seqVars>>

----------------------------------------------------------------------------
(* The two callbacks, run by the delivery thread *)

\* set_value on a promise in state p: the new state of the promise and
\* whether the process goes on ("ok") or is terminated ("abort"); a write
\* through the dangling reference to a destroyed promise may do either
SetValue(p) ==
    CASE p = "unset" -> { [prom |-> "set", run |-> "ok", ub |-> "none"] }
      [] p = "set"   -> { [prom |-> "set", run |-> "abort", ub |-> "none"] }
      [] OTHER       -> { [prom |-> p, run |-> "ok", ub |-> "benign"],
                          [prom |-> p, run |-> "abort", ub |-> "crash"] }

\* auto system = mavsdk.systems().back(); if (system->has_autopilot())
\* subscribe_on_new_system(nullptr)
CbSysCheck ==
    /\ Alive
    /\ cbPc = "sys_run"
    /\ cbSystem' = Len(systems)
    /\ IF systems[Len(systems)]
       THEN /\ sysSub' = subscribe_nullptr
            /\ subCalls' = [subCalls EXCEPT !.sysUnsub = @ + 1]
            /\ cbPc' = "sys_set"
       ELSE /\ cbPc' = "idle"
            /\ UNCHANGED <<sysSub, subCalls>>
    /\ UNCHANGED <<pc, timer, mainVars, systems, sysPending, prom, promVal,
                   lsVars, cbState, ub, callVars, setValueCalls, waited, waits,
                   outcome, seqVars>>

\* prom.set_value(system)
CbSysSet ==
    /\ Alive
    /\ cbPc = "sys_set"
    /\ setValueCalls' = [setValueCalls EXCEPT !.prom = @ + 1]
    /\ cbPc' = "idle"
    /\ \E o \in SetValue(prom) :
        /\ prom' = o.prom
        /\ promVal' = IF prom = "unset" THEN cbSystem ELSE promVal
        /\ ub' = IF o.ub = "none" THEN ub ELSE o.ub
        /\ IF o.run = "abort"
           THEN pc' = "exited" /\ exitStatus' = "abnormal"
           ELSE UNCHANGED <<pc, exitStatus>>
    /\ UNCHANGED <<variant, argc, retval, connection_result, system, timer,
                   systems, sysSub, sysPending, lsVars, cbSystem, cbState,
                   callVars, subCalls, waited, waits, outcome, seqVars>>

\* if (state == LandedState::InAir) subscribe_landed_state(nullptr)
CbLsCheck ==
    /\ Alive
    /\ cbPc = "ls_run"
    /\ IF cbState = "InAir"
       THEN /\ lsSub' = subscribe_nullptr
            /\ subCalls' = [subCalls EXCEPT !.lsUnsub = @ + 1]
            /\ cbPc' = "ls_set"
       ELSE /\ cbPc' = "idle"
            /\ UNCHANGED <<lsSub, subCalls>>
    /\ UNCHANGED <<pc, timer, mainVars, discVars, lsQueue, inAirProm,
                   cbSystem, cbState, ub, callVars, setValueCalls, waited,
                   waits, outcome, seqVars>>

\* in_air_promise.set_value()
CbLsSet ==
    /\ Alive
    /\ cbPc = "ls_set"
    /\ setValueCalls' = [setValueCalls EXCEPT !.inAirProm = @ + 1]
    /\ cbPc' = "idle"
    /\ \E o \in SetValue(inAirProm) :
        /\ inAirProm' = o.prom
        /\ ub' = IF o.ub = "none" THEN ub ELSE o.ub
        /\ IF o.run = "abort"
           THEN pc' = "exited" /\ exitStatus' = "abnormal"
           ELSE UNCHANGED <<pc, exitStatus>>
    /\ UNCHANGED <<variant, argc, retval, connection_result, system, timer,
                   discVars, lsSub, lsQueue, cbSystem, cbState,
                   callVars, subCalls, waited, waits, outcome, seqVars>>

----------------------------------------------------------------------------
Next ==
    \/ MainArgs \/ Connect
    \/ GsSubscribe \/ GsReady \/ GsTimeout
    \/ MainSystem \/ HealthPoll \/ HealthSleep \/ Arm \/ Takeoff
    \/ TaSubscribe \/ TaWait1 \/ TaReady \/ TaTimeout
    \/ OffbPre \/ OffbStart \/ OffbSend \/ OffbSleep \/ OffbStop
    \/ Land \/ GroundedPoll \/ GroundedSleep \/ FinalSleep \/ ProcessExit
    \/ Tick
    \/ Discover \/ DeliverSys \/ LandedStateEvent \/ DeliverLs
    \/ CbSysCheck \/ CbSysSet \/ CbLsCheck \/ CbLsSet

Spec == Init /\ [][Next]_vars

\* the steps of the control thread, the passing of time included
CtrlNext ==
    \/ MainArgs \/ Connect
    \/ GsSubscribe \/ GsReady \/ GsTimeout
    \/ MainSystem \/ HealthPoll \/ HealthSleep \/ Arm \/ Takeoff
    \/ TaSubscribe \/ TaWait1 \/ TaReady \/ TaTimeout
    \/ OffbPre \/ OffbStart \/ OffbSend \/ OffbSleep \/ OffbStop
    \/ Land \/ GroundedPoll \/ GroundedSleep \/ FinalSleep \/ ProcessExit
    \/ Tick

\* the control thread keeps running: every remote call returns, every
\* sleep_for and wait_for ends; nothing is assumed of the notifications
\* nor of the values the polls return
FairSpec == Spec /\ WF_vars(CtrlNext)

----------------------------------------------------------------------------
(* Reading the history *)

IsSend(e) == e.op = "set_velocity_body"
Sends == SelectSeq(chan, IsSend)
Cmds(s) == [k \in 1..Len(s) |-> s[k].cmd]
StartIdx == CHOOSE k \in 1..Len(chan) : chan[k].op = "start"
StopIdx == CHOOSE k \in 1..Len(chan) : chan[k].op = "stop"
PostStartSends == SelectSeq(SubSeq(chan, StartIdx + 1, Len(chan)), IsSend)

\* what the sequencer is to send after a successful start, from the script
Expected(v) ==
    [k \in 1..(Len(Steps(v)) + 2) |->
        IF k = 1 \/ k = Len(Steps(v)) + 2
        THEN Step(hover, SettleSecs)
        ELSE Steps(v)[k - 1]]

----------------------------------------------------------------------------
(* C1: when start() and stop() both returned Success, exactly              *)
(* len(steps) + 3 velocity commands were sent: the pre-start neutral, the  *)
(* post-start neutral, one per step and the final neutral.                 *)
C1_SendCount ==
    (results["start"] = "Success" /\ results["stop"] = "Success")
        => /\ Len(Sends) = Len(Steps(variant)) + 3
           /\ Sends[1].cmd = hover
           /\ Sends[2].cmd = hover
           /\ Sends[Len(Sends)].cmd = hover

C1_Witness ==
    /\ variant = "omni"
    /\ results["start"] = "Success"
    /\ results["stop"] = "Success"
    /\ Len(Sends) = 11

(* C2: stop() has been called only if an earlier start() of the same run   *)
(* returned Success; start and stop are each called at most once.          *)
C2_StopOnlyAfterStart ==
    /\ ncalls["start"] <= 1
    /\ ncalls["stop"] <= 1
    /\ \A k \in 1..Len(chan) :
          chan[k].op = "stop" =>
              \E j \in 1..(k - 1) : chan[j].op = "start" /\ chan[j].res = "Success"

C2_Witness ==
    /\ ncalls["stop"] = 1
    /\ ncalls["start"] = 1
    /\ results["stop"] = "Failed"

(* C3: when start() does not return Success the sequencer returns failure  *)
(* at once: nothing is sent after the start attempt, stop() is not called  *)
(* and main returns 1.                                                     *)
C3_StartFailedAborts ==
    results["start"] = "Failed"
        => /\ pc \in {"returned", "exited"}
           /\ retval = "1"
           /\ chan[Len(chan)].op = "start"
           /\ Len(Sends) = 1
           /\ ncalls["stop"] = 0
           /\ ncalls["land"] = 0

C3_Witness ==
    /\ results["start"] = "Failed"
    /\ pc = "exited"
    /\ variant = "ortho"

(* C4: a neutral velocity command has been sent before start() is called;  *)
(* start() is never the first operation on the channel.                    *)
C4_SendBeforeStart ==
    \A k \in 1..Len(chan) :
        chan[k].op = "start"
            => /\ k > 1
               /\ chan[1].op = "set_velocity_body"
               /\ chan[1].cmd = hover

C4_Witness ==
    /\ Len(chan) = 2
    /\ chan[2].op = "start"
    /\ chan[1].cmd = hover

(* C5: after a successful start the commands sent are, in order and with   *)
(* none skipped or repeated, neutral, step[0..n-1], neutral; each command  *)
(* after the first is sent only once the dwell of the one before it has    *)
(* fully elapsed, and the list is complete when stop() is called.          *)
C5_ScriptOrderAndDwell ==
    ncalls["start"] = 1 =>
        LET s == PostStartSends
            e == Expected(variant)
        IN  /\ Len(s) <= Len(e)
            /\ \A k \in 1..Len(s) : s[k].cmd = e[k].cmd
            /\ \A k \in 2..Len(s) : s[k].at - s[k - 1].at >= e[k - 1].dwell
            /\ ncalls["stop"] = 1 => Len(s) = Len(e)

C5_Witness ==
    /\ variant = "omni"
    /\ ncalls["stop"] = 1
    /\ Len(PostStartSends) = 10
    /\ PostStartSends[10].at = 34

(* C6: in every interleaving of the delivery thread with the control       *)
(* thread's timed wait, set_value is executed at most once on each of the  *)
(* two promises, also when several matching notifications are delivered,   *)
(* and the waiting caller obtains one outcome that never changes: Resolved *)
(* only after the single set_value, never Resolved and TimedOut both.      *)
C6_Inv ==
    /\ setValueCalls.prom <= 1
    /\ setValueCalls.inAirProm <= 1
    /\ outcome.gs = "Resolved" => setValueCalls.prom = 1
    /\ outcome.ta = "Resolved" => setValueCalls.inAirProm = 1

C6_OneShot ==
    /\ []C6_Inv
    /\ [][/\ outcome.gs # "none" => outcome'.gs = outcome.gs
          /\ outcome.ta # "none" => outcome'.ta = outcome.ta]_vars

C6_Witness ==
    /\ outcome.ta = "Resolved"
    /\ setValueCalls.inAirProm = 1
    /\ lsQueue # << >>
    /\ Head(lsQueue) = "InAir"
    /\ systems = << TRUE, TRUE >>

C7_Inv ==
    /\ outcome.gs = "TimedOut" =>
          (waits = 1 /\ waited = DiscoverTimeout /\ setValueCalls.prom <= 1
           /\ promVal = 0 /\ system = 0)
    /\ outcome.ta = "TimedOut" =>
          (waits = 2 /\ waited = TakeoffWait1 + TakeoffWait2
           /\ inAirProm # "set")

AllSucceeded ==
    /\ argc = 2
    /\ results["add_any_connection"] = "Success"
    /\ outcome.gs = "Resolved"
    /\ results["arm"] = "Success"
    /\ results["takeoff"] = "Success"
    /\ outcome.ta = "Resolved"
    /\ results["start"] = "Success"
    /\ results["stop"] = "Success"
    /\ results["land"] = "Success"

StageOrder ==
    << "add_any_connection", "arm", "takeoff", "start", "stop", "land" >>

C8_ExitStatus ==
    pc = "exited" =>
        /\ exitStatus = "0" <=> AllSucceeded
        /\ ~AllSucceeded => exitStatus = "1"
        /\ \A k \in 1..Len(StageOrder) :
              results[StageOrder[k]] # "Success" =>
                  \A j \in (k + 1)..Len(StageOrder) : ncalls[StageOrder[j]] = 0
        /\ outcome.gs = "TimedOut" => ncalls["arm"] = 0
        /\ outcome.ta = "TimedOut" => ncalls["start"] = 0

(* C9: the routine's state only stays, advances to the next state of the   *)
(* list or jumps to Failed; Failed and Finished are never left and no      *)
(* remote call is made from them.                                          *)
StageNames ==
    << "Connecting", "AwaitingPeer", "AwaitingHealth", "Arming", "TakingOff",
       "ConfirmingAirborne", "RunningSequence", "Landing",
       "ConfirmingGrounded", "Finished" >>

Stage ==
    CASE pc \in {"main_args", "connect"} -> "Connecting"
      [] pc \in {"gs_subscribe", "gs_wait", "main_system"} -> "AwaitingPeer"
      [] pc \in {"health", "health_sleep"} -> "AwaitingHealth"
      [] pc = "arm" -> "Arming"
      [] pc = "takeoff" -> "TakingOff"
      [] pc \in {"ta_subscribe", "ta_wait1", "ta_wait2"} -> "ConfirmingAirborne"
      [] pc \in {"offb_pre", "offb_start", "offb_body", "offb_sleep", "offb_stop"}
            -> "RunningSequence"
      [] pc = "land" -> "Landing"
      [] pc \in {"grounded", "grounded_sleep", "final_sleep"} -> "ConfirmingGrounded"
      [] OTHER -> IF retval = "0" THEN "Finished" ELSE "Failed"

Rank(s) == CHOOSE k \in 1..Len(StageNames) : StageNames[k] = s

C9_LinearStages ==
    [][/\ \/ Stage' = Stage
          \/ Stage' = "Failed"
          \/ (Stage # "Failed" /\ Rank(Stage') = Rank(Stage) + 1)
       /\ Stage \in {"Failed", "Finished"}
             => (Stage' = Stage /\ ncalls' = ncalls /\ chan' = chan)]_vars

C9_Witness ==
    /\ Stage = "Finished"
    /\ pc = "exited"
    /\ exitStatus = "0"

(* C10, as stated: in the one-step script four commands are sent, neutral, *)
(* neutral, forward, neutral, and at least 10 s were spent in dwells when  *)
(* stop() is called.                                                       *)
C10_TenSeconds ==
    (variant = "ortho" /\ ncalls["stop"] = 1)
        => /\ Cmds(Sends) = << hover, hover, fly_forward, hover >>
           /\ chan[StopIdx].at >= 10

(* C10, amended: the four commands are sent in that order and at least 8 s *)
(* (2 + 4 + 2; the pre-start neutral is not followed by a hold) were spent *)
(* in dwells when stop() is called.                                        *)
C10_EightSeconds ==
    (variant = "ortho" /\ ncalls["stop"] = 1)
        => /\ Cmds(Sends) = << hover, hover, fly_forward, hover >>
           /\ chan[StopIdx].at >= 8

C10_Witness ==
    /\ variant = "ortho"
    /\ ncalls["stop"] = 1
    /\ Len(Sends) = 4
    /\ chan[StopIdx].at = 8

(* C11: a callback that matches unsubscribes before it resolves the        *)
(* promise; each monitor makes one subscribe call and, when a notification *)
(* matched, one unsubscribe call, however many notifications are emitted.  *)
C11_UnsubscribeBeforeResolve ==
    /\ subCalls.sysSub <= 1
    /\ subCalls.lsSub <= 1
    /\ subCalls.sysUnsub <= 1
    /\ subCalls.lsUnsub <= 1
    /\ setValueCalls.prom <= subCalls.sysUnsub
    /\ setValueCalls.inAirProm <= subCalls.lsUnsub
    /\ cbPc = "sys_set" => (~sysSub /\ subCalls.sysUnsub = 1)
    /\ cbPc = "ls_set" => (~lsSub /\ subCalls.lsUnsub = 1)
    /\ outcome.gs = "Resolved" => (subCalls.sysSub = 1 /\ subCalls.sysUnsub = 1)
    /\ outcome.ta = "Resolved" => (subCalls.lsSub = 1 /\ subCalls.lsUnsub = 1)

C11_Witness ==
    /\ outcome.gs = "Resolved"
    /\ outcome.ta = "Resolved"
    /\ subCalls = [sysSub |-> 1, sysUnsub |-> 1, lsSub |-> 1, lsUnsub |-> 1]
    /\ Len(systems) = 2
    /\ lsQueue # << >>

(* C12: as long as no poll of health_all_ok() has returned true the        *)
(* routine is not past AwaitingHealth and neither arm() nor any later      *)
(* remote call has been issued.                                            *)
C12_ArmOnlyWhenHealthy ==
    polls.health_all_ok # "TRUE"
        => /\ Stage \in {"Connecting", "AwaitingPeer", "AwaitingHealth", "Failed"}
           /\ \A c \in CallNames \ {"add_any_connection"} : ncalls[c] = 0
           /\ chan = << >>
           /\ subCalls.lsSub = 0

C12_Witness ==
    /\ pc = "health"
    /\ polls.health_all_ok = "FALSE"
    /\ outcome.gs = "Resolved"

(* C13: whatever the collaborator returns, each remote call is invoked at  *)
(* most once in a run.                                                     *)
C13_NoRetry ==
    \A c \in CallNames : ncalls[c] <= 1

C13_Witness ==
    /\ \A c \in CallNames : ncalls[c] = 1
    /\ results["land"] = "Failed"
    /\ pc = "exited"

(* C14: land() is called only after start() and stop() both returned       *)
(* Success; when start or stop fails the routine ends with status 1 and no *)
(* land command.                                                           *)
C14_LandOnlyAfterSequence ==
    /\ ncalls["land"] > 0
          => (results["start"] = "Success" /\ results["stop"] = "Success")
    /\ (results["start"] = "Failed" \/ results["stop"] = "Failed")
          => /\ ncalls["land"] = 0
             /\ pc \in {"returned", "exited"}
             /\ retval = "1"
             /\ pc = "exited" => exitStatus = "1"

C14_Witness ==
    /\ results["stop"] = "Failed"
    /\ outcome.ta = "Resolved"
    /\ pc = "exited"
    /\ exitStatus = "1"

(* C15, as stated: when a monitor times out no unsubscribe has been        *)
(* issued and the subscription is still registered as the waiting function *)
(* returns.                                                                *)
GsTimesOut == outcome.gs = "none" /\ outcome'.gs = "TimedOut"
TaTimesOut == outcome.ta = "none" /\ outcome'.ta = "TimedOut"

C16_NoWriteAfterReturn ==
    ub = "none"

(* C17: when get_system returns, it returns a system with an autopilot if  *)
(* one was discovered since the connection was added, also one discovered  *)
(* before the callback was registered; a system it returns has an          *)
(* autopilot.                                                              *)
C17_NoLostPeer ==
    [][(outcome.gs = "none" /\ outcome'.gs # "none")
          => /\ (\E k \in 1..Len(systems) : systems[k])
                    => (outcome'.gs = "Resolved" /\ system' # 0)
             /\ system' # 0 => systems[system']]_vars

(* C18: when the control thread keeps running, every run ends (Finished or *)
(* Failed) unless it stays forever in the health polling loop or in the    *)
(* in-air polling loop; so it ends whenever health_all_ok() eventually     *)
(* returns true and in_air() eventually returns false.                     *)
C18_EndsOrPollsForever ==
    \/ <>(pc = "exited")
    \/ <>[](pc \in {"health", "health_sleep"})
    \/ <>[](pc \in {"grounded", "grounded_sleep"})

C18_Witness ==
    /\ pc = "exited"
    /\ exitStatus = "0"
    /\ polls = [health_all_ok |-> "TRUE", in_air |-> "FALSE"]
    /\ variant = "omni"

====
